---- MODULE Spec2Model ----
(***************************************************************************)
(* Model of DistributedLRUCache (src/geoDistributableCache.py): a          *)
(* region-local cache (an OrderedDict with a size bound, optional expiry   *)
(* times and per-key versions) replicated to peer regions by messages.     *)
(*                                                                         *)
(* Every region is one DistributedLRUCache object.  The fields of the      *)
(* object are the variables below, each a function of the region.  The     *)
(* code holds self.lock for the whole body of get, of set and of the       *)
(* consumer's apply step, so each of those bodies is one action.  The      *)
(* fan-out that ends set (line 114) only starts threads from the caller's  *)
(* local key, value and version, so it is part of the action Set.          *)
(* SpecThreads takes the same bodies apart, statement by statement, with   *)
(* the lock as a variable.                                                 *)
(*                                                                         *)
(* lines_overlap (src/questionA.py) is an operator, called in SpecOverlap. *)
(***************************************************************************)
EXTENDS Integers, Sequences, FiniteSets, TLC

\* ------------------------------------------------------------------ bounds
MaxTime    == 2   \* the clock stops ticking here
MaxVersion == 2   \* local sets stop stamping above this; largest injected version
MaxInFlight == 1  \* per region: connections not yet handled plus messages queued
MaxOpen    == 2   \* the same, where connections are handled concurrently
MaxCoord   == 3   \* the endpoints of the segments are 0..MaxCoord
MaxBatch   == 3   \* remote messages delivered to the instance that makes no set of the key

retries    == 9

\* ------------------------------------------------------------------ domains
Regions == {"us-east", "us-west", "asia"}
Keys    == {"a", "b", "c"}
Values  == {"1", "2"}
None    == "None"

\* Constructor arguments the instances are built with.
Caps == {1, 2}    \* max_size
TTLs == {0, 1}    \* ttl; 0 stands for None (both are falsy in the code)

\* The keys that remote messages are about.
RemoteKeys == {"a", "b"}

\* The wire message of one write (class Message).
Message(k, v, n, r) == [key |-> k, value |-> v, version |-> n, region |-> r]

Messages == {Message(k, v, n, r) : k \in RemoteKeys, v \in Values, n \in 0..MaxVersion, r \in Regions}

VARIABLES
    max_size,           \* self.max_size
    ttl,                \* self.ttl; 0 stands for None (both are falsy in the code)
    peer_ports,         \* self.peer_ports, the peers named by their region
    cache,              \* self.cache: the OrderedDict, oldest entry first
    expiration_times,   \* self.expiration_times: dict key -> time
    expected_versions,  \* self.expected_versions: dict key -> version
    message_queue,      \* self.message_queue: FIFO of decoded Messages
    conns,              \* connections accepted by _run_server, one payload each
    senders,            \* running _send_message threads
    up,                 \* the regions whose listener accepts connections
    now,                \* datetime.now(), a discrete clock
    last,               \* the step taken last, and what it returned
    writes,             \* history: per region, the last write of each key, oldest first
    lock,               \* self.lock of the instance under test: the thread holding it, or None
    pc,                 \* where each thread of that instance is in its get, set or apply
    call                \* the call of a function under test: its arguments and its result

vars == <<max_size, ttl, peer_ports, cache, expiration_times, expected_versions,
          message_queue, conns, senders, up, now, last, writes, lock, pc, call>>

\* ------------------------------------------------------------ dict helpers
\* d[k] = x on a Python dict.
Put(d, k, x) == [y \in (DOMAIN d) \cup {k} |-> IF y = k THEN x ELSE d[y]]

\* del d[k] for every k of ks.
Drop(d, ks) == [y \in (DOMAIN d) \ ks |-> d[y]]

EmptyDict == [y \in {} |-> 0]

\* ------------------------------------------------------- OrderedDict helpers
CacheKeys(c) == {c[n].key : n \in DOMAIN c}

\* The keys of the OrderedDict in iteration order (oldest first).
KeyOrder(c) == [n \in DOMAIN c |-> c[n].key]

\* c.get(k): the value, or None.
Lookup(c, k) == IF k \in CacheKeys(c) THEN (CHOOSE e \in {c[n] : n \in DOMAIN c} : e.key = k).value ELSE None

\* c.pop(k)
Pop(c, k) == SelectSeq(c, LAMBDA e : e.key # k)

\* c[k] = v: a present key keeps its position, a new key goes last.
SetItem(c, k, v) == IF k \in CacheKeys(c) THEN [n \in DOMAIN c |-> IF c[n].key = k THEN [key |-> k, value |-> v] ELSE c[n]] ELSE Append(c, [key |-> k, value |-> v])

\* ----------------------------------------------------------- _cleanup_expired
\* Mutant: the comparison of line 137 turned around.
ExpiredInverted(exp, k, clock) == k \in DOMAIN exp /\ exp[k] >= clock

\* Line 137.
Expired(exp, k, clock) == k \in DOMAIN exp /\ exp[k] <= clock

CleanupExpired(c, exp, t, clock) ==
    IF t = 0 THEN [cache |-> c, exp |-> exp]
    ELSE [cache |-> SelectSeq(c, LAMBDA e : ~Expired(exp, e.key, clock)),
          exp   |-> Drop(exp, {k \in CacheKeys(c) : Expired(exp, k, clock)})]

\* ------------------------------------------------------------------ get
\* Lines 87-90: a present key is popped and re-inserted, so it moves last.
GetCache(c, k) == IF k \in CacheKeys(c) THEN Append(Pop(c, k), [key |-> k, value |-> Lookup(c, k)]) ELSE c

\* ------------------------------------------------------------------ set
NextVersion(ev, k) == (IF k \in DOMAIN ev THEN ev[k] ELSE 0) + 1

\* Mutant: popitem() without last=False evicts the newest entry.
SetCacheEvictNewest(c, k, v, cap) ==
    LET kept == IF k \in CacheKeys(c) THEN Pop(c, k)
                ELSE IF Len(c) >= cap THEN SubSeq(c, 1, Len(c) - 1)
                ELSE c
    IN  Append(kept, [key |-> k, value |-> v])

\* Mutant: a present key keeps its entry, the new value is lost.
SetCacheKeepOld(c, k, v, cap) ==
    IF k \in CacheKeys(c) THEN c
    ELSE Append(IF Len(c) >= cap THEN Tail(c) ELSE c, [key |-> k, value |-> v])

\* Lines 106-110.
SetCache(c, k, v, cap) ==
    LET kept == IF k \in CacheKeys(c) THEN Pop(c, k)
                ELSE IF Len(c) >= cap THEN Tail(c)
                ELSE c
    IN  Append(kept, [key |-> k, value |-> v])

\* Lines 112-113 and 206-207.
Stamp(exp, k, t, clock) == IF t # 0 THEN Put(exp, k, clock + t) ELSE exp

\* --------------------------------------------------------- _consume_updates
\* Mutant: an equal version is accepted too.
AcceptsEqual(ev, m) == m.key \notin DOMAIN ev \/ m.version >= ev[m.key]

\* Mutant: an unseen key counts as version 0, as it does in set.
AcceptsDefaultZero(ev, m) == m.version > (IF m.key \in DOMAIN ev THEN ev[m.key] ELSE 0)

\* Mutant: any version other than the recorded one is accepted.
AcceptsDifferent(ev, m) == m.key \notin DOMAIN ev \/ m.version # ev[m.key]

\* Mutant: no version test, the message processed last wins.
AcceptsAll(ev, m) == TRUE

\* Line 204.
Accepts(ev, m) == m.key \notin DOMAIN ev \/ m.version > ev[m.key]

\* A version that is a JSON string: the payload decodes, and Python raises
\* TypeError when it compares the string with a number (line 204) or adds 1 to
\* it (line 105).  Two strings compare, and equal ones are not greater.
Text == -2

Comparable(n1, n2) == (n1 = Text) <=> (n2 = Text)

\* The comparison of line 204 raises; a key with no recorded version is never
\* compared.
Raises(ev, m) == m.key \in DOMAIN ev /\ ~Comparable(m.version, ev[m.key])

\* Mutant: the Store and the versions are written before the comparison is made.
AppliesEvenIfRaised(ev, m) == Raises(ev, m) \/ Accepts(ev, m)

\* The consumer writes: the test of line 204 yields true without raising.
Applies(ev, m) == ~Raises(ev, m) /\ Accepts(ev, m)

\* Mutant: only a key already in the Store is updated.
ApplyCacheExistingOnly(c, m) == IF m.key \in CacheKeys(c) THEN SetItem(c, m.key, m.value) ELSE c

\* Line 205.
ApplyCache(c, m) == SetItem(c, m.key, m.value)

\* ------------------------------------------------------------------ history
\* The last write of every key, in the order the writes happened.
LogWrite(w, k, v, clock) == Append(SelectSeq(w, LAMBDA e : e.key # k), [key |-> k, value |-> v, time |-> clock])

\* The step taken last: value is what get returned, applied whether the
\* consumer accepted the message.
Step(o, r, k, v, a) == [op |-> o, region |-> r, key |-> k, value |-> v, applied |-> a]

\* A step that is no operation on a key.
Idle(o) == Step(o, "us-east", "a", None, FALSE)

\* ------------------------------------------------------------------ threads
\* The threads of the instance under test that take self.lock: two callers of
\* get and set (test_concurrent_access starts two, lines 308-311) and the
\* consumer (line 71).
Threads == {"caller1", "caller2", "consumer"}

\* The locals of a thread: where it is, and the key, value and version it works on.
Frame(a, k, v, n) == [at |-> a, key |-> k, value |-> v, version |-> n]

AtRest == Frame("idle", None, None, 0)

\* No function has been called.
NoCall == [fn |-> None, args |-> <<>>, result |-> FALSE]

\* ------------------------------------------------------------------ actions
Get(i, k) ==
    LET cl == CleanupExpired(cache[i], expiration_times[i], ttl[i], now)
    IN  /\ cache' = [cache EXCEPT ![i] = GetCache(cl.cache, k)]
        /\ expiration_times' = [expiration_times EXCEPT ![i] = cl.exp]
        /\ last' = Step("get", i, k, Lookup(cl.cache, k), FALSE)
        /\ UNCHANGED <<call, lock, pc, max_size, ttl, peer_ports, expected_versions, message_queue,
                       conns, senders, up, now, writes>>

\* _send_update_async (lines 213-216): one _send_message thread per peer.
NewSenders(m, peers) == {[port |-> p, message |-> m, attempt |-> 0] : p \in peers}

\* Mutant: set itself connects and sends to every peer.
SendUpdateSync(i, m) ==
    /\ peer_ports[i] \subseteq up
    /\ conns' = [p \in Regions |-> IF p \in peer_ports[i] THEN conns[p] \cup {m} ELSE conns[p]]
    /\ UNCHANGED <<senders, up>>

\* The fan-out only starts the threads: it neither connects nor waits.
SendUpdateAsync(i, m) ==
    /\ senders' = senders \cup NewSenders(m, peer_ports[i])
    /\ UNCHANGED <<conns, up>>

\* set (lines 103-114): the locked part, then the fan-out.
Set(i, k, v) ==
    LET cl == CleanupExpired(cache[i], expiration_times[i], ttl[i], now)
        version == NextVersion(expected_versions[i], k)
    IN  /\ version <= MaxVersion
        /\ k \in DOMAIN expected_versions[i] => expected_versions[i][k] # Text
        /\ cache' = [cache EXCEPT ![i] = SetCache(cl.cache, k, v, max_size[i])]
        /\ expected_versions' = [expected_versions EXCEPT ![i] = Put(@, k, version)]
        /\ expiration_times' = [expiration_times EXCEPT ![i] = Stamp(cl.exp, k, ttl[i], now)]
        /\ SendUpdateAsync(i, Message(k, v, version, i))
        /\ writes' = [writes EXCEPT ![i] = LogWrite(@, k, v, now)]
        /\ last' = Step("set", i, k, None, TRUE)
        /\ UNCHANGED <<call, lock, pc, max_size, ttl, peer_ports, message_queue, now>>

\* set of a key whose recorded version is a string: line 105 raises TypeError
\* after the sweep of line 104, the exception leaves set and releases the lock.
SetRaises(i, k) ==
    LET cl == CleanupExpired(cache[i], expiration_times[i], ttl[i], now)
    IN  /\ k \in DOMAIN expected_versions[i]
        /\ expected_versions[i][k] = Text
        /\ cache' = [cache EXCEPT ![i] = cl.cache]
        /\ expiration_times' = [expiration_times EXCEPT ![i] = cl.exp]
        /\ last' = Step("set", i, k, "TypeError", FALSE)
        /\ UNCHANGED <<call, lock, pc, max_size, ttl, peer_ports, expected_versions, message_queue,
                       conns, senders, up, now, writes>>

\* Mutant: the consumer applies a message the way set does and hands it on
\* to its own peers.
ConsumeForwarding(i) ==
    /\ message_queue[i] # <<>>
    /\ LET m == Head(message_queue[i])
           ok == Applies(expected_versions[i], m)
       IN  /\ message_queue' = [message_queue EXCEPT ![i] = Tail(@)]
           /\ cache' = [cache EXCEPT ![i] = IF ok THEN ApplyCache(@, m) ELSE @]
           /\ expiration_times' = [expiration_times EXCEPT ![i] = IF ok THEN Stamp(@, m.key, ttl[i], now) ELSE @]
           /\ expected_versions' = [expected_versions EXCEPT ![i] = IF ok THEN Put(@, m.key, m.version) ELSE @]
           /\ writes' = [writes EXCEPT ![i] = IF ok THEN LogWrite(@, m.key, m.value, now) ELSE @]
           /\ senders' = IF ok THEN senders \cup NewSenders(m, peer_ports[i]) ELSE senders
           /\ last' = Step("consume", i, m.key, IF Raises(expected_versions[i], m) THEN "TypeError" ELSE None, ok)
    /\ UNCHANGED <<call, lock, pc, max_size, ttl, peer_ports, conns, up, now>>

\* The consumer's loop body (lines 202-211): the message is taken from the
\* queue, then tested and applied under the lock; an exception is caught inside
\* the loop.
Consume(i) ==
    /\ message_queue[i] # <<>>
    /\ LET m == Head(message_queue[i])
           ok == Applies(expected_versions[i], m)
       IN  /\ message_queue' = [message_queue EXCEPT ![i] = Tail(@)]
           /\ cache' = [cache EXCEPT ![i] = IF ok THEN ApplyCache(@, m) ELSE @]
           /\ expiration_times' = [expiration_times EXCEPT ![i] = IF ok THEN Stamp(@, m.key, ttl[i], now) ELSE @]
           /\ expected_versions' = [expected_versions EXCEPT ![i] = IF ok THEN Put(@, m.key, m.version) ELSE @]
           /\ writes' = [writes EXCEPT ![i] = IF ok THEN LogWrite(@, m.key, m.value, now) ELSE @]
           /\ last' = Step("consume", i, m.key, IF Raises(expected_versions[i], m) THEN "TypeError" ELSE None, ok)
    /\ UNCHANGED <<call, lock, pc, max_size, ttl, peer_ports, conns, senders, up, now>>

\* The fields _handle_client reads from the decoded payload (line 177).
Fields == {"key", "value", "version", "region"}

\* A payload is the JSON object it decodes to, a record; what is not a JSON
\* object is a record of its raw text.  Lines 174-177 enqueue one Message when
\* the payload is not empty, json.loads succeeds and all four fields are there.
Decodes(p) == Fields \subseteq DOMAIN p

\* Mutant: absent fields are read with defaults (message.get) instead of raising.
DecodeWithDefaults(p) ==
    IF "key" \in DOMAIN p
    THEN <<Message(p.key,
                   IF "value" \in DOMAIN p THEN p.value ELSE None,
                   IF "version" \in DOMAIN p THEN p.version ELSE 0,
                   IF "region" \in DOMAIN p THEN p.region ELSE None)>>
    ELSE <<>>

\* The Messages one payload puts on the queue: one, or none when the payload is
\* empty (line 175) or decoding raises (caught at line 178).
Decode(p) == IF Decodes(p) THEN <<Message(p.key, p.value, p.version, p.region)>> ELSE <<>>

\* _handle_client (lines 173-181): decode the payload of one connection, enqueue
\* it, close the connection.
HandleClient(i) ==
    \E m \in conns[i] :
        /\ conns' = [conns EXCEPT ![i] = @ \ {m}]
        /\ message_queue' = [message_queue EXCEPT ![i] = @ \o Decode(m)]
        /\ last' = Step("handle", i, IF Decodes(m) THEN m.key ELSE None, None, Decodes(m))
        /\ UNCHANGED <<call, lock, pc, max_size, ttl, peer_ports, cache, expiration_times, expected_versions,
                       senders, up, now, writes>>

InFlight(i) == Cardinality(conns[i]) + Len(message_queue[i])

\* _run_server (lines 159-161) accepts the connection of any client that has
\* written one payload, as test_send_message does (line 321), while fewer than
\* bound connections and messages are in flight.
Connect(i, p, bound) ==
    /\ i \in up
    /\ InFlight(i) < bound
    /\ p \notin conns[i]
    /\ conns' = [conns EXCEPT ![i] = @ \cup {p}]
    /\ last' = Step("connect", i, IF Decodes(p) THEN p.key ELSE None, None, FALSE)
    /\ UNCHANGED <<lock, pc, max_size, ttl, peer_ports, cache, expiration_times, expected_versions,
                   message_queue, senders, up, now, writes>>

Accept(i, p, bound) == Connect(i, p, bound) /\ UNCHANGED call

\* The same, the payloads accepted so far being kept in call, in their order.
Delivery(i, p, bound) ==
    /\ Connect(i, p, bound)
    /\ call' = [fn |-> "deliveries", args |-> Append(call.args, p), result |-> FALSE]

\* A client connects and writes a well-formed message.
ClientConnect(i, m) == Accept(i, m, MaxInFlight)

\* Mutant: the return of line 239 is missing, the loop goes on after a success.
SendDeliveredNoReturn(s) ==
    /\ s \in senders
    /\ s.port \in up
    /\ InFlight(s.port) < MaxInFlight
    /\ conns' = [conns EXCEPT ![s.port] = @ \cup {s.message}]
    /\ senders' = IF s.attempt + 1 < retries
                  THEN (senders \ {s}) \cup {[s EXCEPT !.attempt = @ + 1]}
                  ELSE senders \ {s}
    /\ last' = Step("send", s.port, s.message.key, None, TRUE)
    /\ UNCHANGED <<call, lock, pc, max_size, ttl, peer_ports, cache, expiration_times, expected_versions,
                   message_queue, up, now, writes>>

\* One attempt of a _send_message thread (lines 234-242) whose connect and
\* sendall succeed: the listener of the peer accepts the connection, the thread
\* returns.
SendDelivered(s) ==
    /\ s \in senders
    /\ s.port \in up
    /\ InFlight(s.port) < MaxInFlight
    /\ conns' = [conns EXCEPT ![s.port] = @ \cup {s.message}]
    /\ senders' = senders \ {s}
    /\ last' = Step("send", s.port, s.message.key, None, TRUE)
    /\ UNCHANGED <<call, lock, pc, max_size, ttl, peer_ports, cache, expiration_times, expected_versions,
                   message_queue, up, now, writes>>

\* One attempt that raises (the peer does not accept): the thread sleeps and
\* tries again, and gives the update up after the last of its retries.
SendFailed(s) ==
    /\ s \in senders
    /\ s.port \notin up
    /\ senders' = IF s.attempt + 1 < retries
                  THEN (senders \ {s}) \cup {[s EXCEPT !.attempt = @ + 1]}
                  ELSE senders \ {s}
    /\ last' = Step("send", s.port, s.message.key, None, FALSE)
    /\ UNCHANGED <<call, lock, pc, max_size, ttl, peer_ports, cache, expiration_times, expected_versions,
                   message_queue, conns, up, now, writes>>

\* The listener of a region stops or starts accepting connections.
PeerDown(i) ==
    /\ i \in up
    /\ up' = up \ {i}
    /\ last' = Idle("down")
    /\ UNCHANGED <<call, lock, pc, max_size, ttl, peer_ports, cache, expiration_times, expected_versions,
                   message_queue, conns, senders, now, writes>>

PeerUp(i) ==
    /\ i \notin up
    /\ up' = up \cup {i}
    /\ last' = Idle("up")
    /\ UNCHANGED <<call, lock, pc, max_size, ttl, peer_ports, cache, expiration_times, expected_versions,
                   message_queue, conns, senders, now, writes>>

Tick ==
    /\ now < MaxTime
    /\ now' = now + 1
    /\ last' = Idle("tick")
    /\ UNCHANGED <<call, lock, pc, max_size, ttl, peer_ports, cache, expiration_times, expected_versions,
                   message_queue, conns, senders, up, writes>>

\* ------------------------------------------------------------------ initial states
\* __init__ (lines 55-65) for every region, given the constructor arguments.
Constructed(sizes, ttls, peers) ==
    /\ max_size = sizes
    /\ ttl = ttls
    /\ peer_ports = peers
    /\ cache = [i \in Regions |-> <<>>]
    /\ expiration_times = [i \in Regions |-> EmptyDict]
    /\ expected_versions = [i \in Regions |-> EmptyDict]
    /\ message_queue = [i \in Regions |-> <<>>]
    /\ conns = [i \in Regions |-> {}]
    /\ senders = {}
    /\ up = Regions
    /\ now = 0
    /\ last = Idle("init")
    /\ writes = [i \in Regions |-> <<>>]
    /\ lock = None
    /\ pc = [t \in Threads |-> AtRest]
    /\ call = NoCall

NoPeers == [i \in Regions |-> {}]

\* One instance under test, as the unit tests construct it: region us-east, no peers.
Main == "us-east"

\* --- local sets only, no TTL, no remote update
InitSets == \E n \in Caps : Constructed([i \in Regions |-> n], [i \in Regions |-> 0], NoPeers)

NextSets ==
    \/ \E k \in Keys, v \in Values : Set(Main, k, v)

SpecSets == InitSets /\ [][NextSets]_vars

\* --- local sets and gets, no TTL, no remote update
NextLocal ==
    \/ \E k \in Keys, v \in Values : Set(Main, k, v)
    \/ \E k \in Keys : Get(Main, k)

SpecLocal == InitSets /\ [][NextLocal]_vars

\* --- one instance with any TTL, any clients sending it messages
Init == \E n \in Caps, t \in TTLs : Constructed([i \in Regions |-> n], [i \in Regions |-> t], NoPeers)

Next ==
    \/ \E k \in RemoteKeys, v \in Values : Set(Main, k, v)
    \/ \E k \in RemoteKeys : Get(Main, k)
    \/ \E m \in Messages : m.region = "us-west" /\ ClientConnect(Main, m)
    \/ HandleClient(Main)
    \/ Consume(Main)
    \/ Tick

Spec == Init /\ [][Next]_vars

\* --- us-east and us-west, each the peer of the other, no TTL, everything reachable
East == "us-east"
West == "us-west"
Asia == "asia"

EachOther == [i \in Regions |-> IF i \in {East, West} THEN {East, West} \ {i} ELSE {}]

\* The local sets of the scenario: key a is written on us-east only, key b on both.
LocalSets(i) == IF i = East THEN {<<"a", "1">>, <<"a", "2">>, <<"b", "1">>} ELSE IF i = West THEN {<<"b", "2">>} ELSE {}

InitNet == Constructed([i \in Regions |-> 2], [i \in Regions |-> 0], EachOther)

LocalSet(i) == \E w \in LocalSets(i) : Set(i, w[1], w[2])

Deliver == \E s \in senders : SendDelivered(s)

NextNet ==
    \/ \E i \in Regions : LocalSet(i)
    \/ Deliver
    \/ \E i \in Regions : HandleClient(i)
    \/ \E i \in Regions : Consume(i)

SpecNet == InitNet /\ [][NextNet]_vars

\* Threads that can run do run: some sender thread, the handler threads and the
\* consumer loop of each region.
FairNet ==
    /\ WF_vars(Deliver)
    /\ \A i \in Regions : WF_vars(HandleClient(i)) /\ WF_vars(Consume(i))

SpecNetFair == SpecNet /\ FairNet

Quiescent ==
    /\ senders = {}
    /\ \A i \in Regions : conns[i] = {} /\ message_queue[i] = <<>>

\* --- us-east replicates to us-west, whose listener comes and goes
InitFail == Constructed([i \in Regions |-> 2], [i \in Regions |-> 0], [i \in Regions |-> IF i = East THEN {West} ELSE {}])

NextFail ==
    \/ \E v \in Values : Set(East, "a", v)
    \/ \E s \in senders : SendDelivered(s)
    \/ \E s \in senders : SendFailed(s)
    \/ PeerDown(West)
    \/ PeerUp(West)
    \/ HandleClient(West)
    \/ Consume(West)

SpecFail == InitFail /\ [][NextFail]_vars

\* Some sender thread that can make its attempt does; the handler threads and
\* the consumer of us-west run.
Attempt == \E s \in senders : SendDelivered(s) \/ SendFailed(s)

FairFail == WF_vars(Attempt) /\ WF_vars(HandleClient(West)) /\ WF_vars(Consume(West))

SpecFailFair == SpecFail /\ FairFail

\* The sender thread of message m to port p is running.
Sending(m, p) == \E s \in senders : s.message = m /\ s.port = p

\* --- a chain: us-east replicates to us-west, us-west to asia, asia to nobody
Chain == [i \in Regions |-> IF i = East THEN {West} ELSE IF i = West THEN {Asia} ELSE {}]

InitChain == Constructed([i \in Regions |-> 2], [i \in Regions |-> 0], Chain)

NextChain ==
    \/ \E v \in Values : Set(East, "a", v)
    \/ \E v \in Values : Set(West, "b", v)
    \/ \E s \in senders : SendDelivered(s)
    \/ \E i \in Regions : HandleClient(i)
    \/ \E i \in Regions : Consume(i)

SpecChain == InitChain /\ [][NextChain]_vars

\* --- one instance whose clients write well-formed and malformed payloads on
\* connections that are open at the same time
EmptyPayload == [raw |-> ""]

NotJson == [raw |-> "not json"]

\* The message test_send_message writes (line 321), here written by us-west.
Sample == Message("a", "2", 1, West)

\* The sample with one of its fields left out.
Without(x) == [f \in Fields \ {x} |-> Sample[f]]

Malformed == {EmptyPayload, NotJson} \cup {Without(x) : x \in Fields}

WellFormed == {Message("a", v, n, West) : v \in Values, n \in 1..MaxVersion}

Payloads == WellFormed \cup Malformed

NextListen ==
    \/ \E v \in Values : Set(Main, "a", v)
    \/ \E p \in Payloads : Accept(Main, p, MaxOpen)
    \/ HandleClient(Main)
    \/ Consume(Main)

SpecListen == InitSets /\ [][NextListen]_vars

\* --- one instance whose clients also send versions that are strings
Versioned == {Message("a", v, n, West) : v \in Values, n \in {Text} \cup 1..MaxVersion}

NextConsumer ==
    \/ \E v \in Values : Set(Main, "a", v)
    \/ SetRaises(Main, "a")
    \/ Get(Main, "a")
    \/ \E m \in Versioned : Accept(Main, m, MaxOpen)
    \/ HandleClient(Main)
    \/ Consume(Main)

SpecConsumer == InitSets /\ [][NextConsumer]_vars

\* --- the threads of one instance, statement by statement around self.lock
\* 'with self.lock' (lines 85, 103, 203): the thread waits until the lock is
\* free and takes it.  f is the frame the thread goes on with.
\* Mutant: the thread goes on without waiting for the lock.
AcquireWithoutWaiting(t, f) ==
    /\ lock' = t
    /\ pc' = [pc EXCEPT ![t] = f]

Acquire(t, f) ==
    /\ lock = None
    /\ lock' = t
    /\ pc' = [pc EXCEPT ![t] = f]

\* Where each thread holds the lock: between its Acquire and its Unlock.
Locked == {"get", "return", "set", "stored", "recorded", "test", "applied", "done"}

\* The Store holds the thread's value while the version is not recorded yet:
\* after line 110 and before line 111, after line 205 and before line 208.
Torn == {"stored", "applied"}

\* get, line 85.
GetLock(t, k) ==
    /\ pc[t] = AtRest
    /\ Acquire(t, Frame("get", k, None, 0))
    /\ last' = Step("lock", Main, k, None, FALSE)
    /\ UNCHANGED <<call, max_size, ttl, peer_ports, cache, expiration_times, expected_versions,
                   message_queue, conns, senders, up, now, writes>>

\* get, lines 86-90.
GetLocked(t) ==
    LET k  == pc[t].key
        cl == CleanupExpired(cache[Main], expiration_times[Main], ttl[Main], now)
    IN  /\ pc[t].at = "get"
        /\ cache' = [cache EXCEPT ![Main] = GetCache(cl.cache, k)]
        /\ expiration_times' = [expiration_times EXCEPT ![Main] = cl.exp]
        /\ pc' = [pc EXCEPT ![t] = Frame("return", k, Lookup(cl.cache, k), 0)]
        /\ last' = Step("get", Main, k, Lookup(cl.cache, k), FALSE)
        /\ UNCHANGED <<call, lock, max_size, ttl, peer_ports, expected_versions, message_queue,
                       conns, senders, up, now, writes>>

\* set, line 103.
SetLock(t, k, v) ==
    /\ pc[t] = AtRest
    /\ NextVersion(expected_versions[Main], k) <= MaxVersion
    /\ Acquire(t, Frame("set", k, v, 0))
    /\ last' = Step("lock", Main, k, None, FALSE)
    /\ UNCHANGED <<call, max_size, ttl, peer_ports, cache, expiration_times, expected_versions,
                   message_queue, conns, senders, up, now, writes>>

\* set, lines 104-110: sweep, compute the version, evict, write the Store.
SetStore(t) ==
    LET k  == pc[t].key
        v  == pc[t].value
        cl == CleanupExpired(cache[Main], expiration_times[Main], ttl[Main], now)
    IN  /\ pc[t].at = "set"
        /\ cache' = [cache EXCEPT ![Main] = SetCache(cl.cache, k, v, max_size[Main])]
        /\ expiration_times' = [expiration_times EXCEPT ![Main] = cl.exp]
        /\ pc' = [pc EXCEPT ![t] = Frame("stored", k, v, NextVersion(expected_versions[Main], k))]
        /\ writes' = [writes EXCEPT ![Main] = LogWrite(@, k, v, now)]
        /\ last' = Step("store", Main, k, None, TRUE)
        /\ UNCHANGED <<call, lock, max_size, ttl, peer_ports, expected_versions, message_queue,
                       conns, senders, up, now>>

\* set, lines 111-113: record the version, stamp the expiry time.
SetRecord(t) ==
    /\ pc[t].at = "stored"
    /\ expected_versions' = [expected_versions EXCEPT ![Main] = Put(@, pc[t].key, pc[t].version)]
    /\ expiration_times' = [expiration_times EXCEPT ![Main] = Stamp(@, pc[t].key, ttl[Main], now)]
    /\ pc' = [pc EXCEPT ![t].at = "recorded"]
    /\ last' = Step("record", Main, pc[t].key, None, TRUE)
    /\ UNCHANGED <<call, lock, max_size, ttl, peer_ports, cache, message_queue,
                   conns, senders, up, now, writes>>

\* The end of a 'with self.lock' block: get returns, the consumer goes back
\* to the queue, set goes on to line 114 with its key, value and version.
Unlock(t) ==
    /\ pc[t].at \in {"return", "recorded", "done"}
    /\ lock' = None
    /\ pc' = [pc EXCEPT ![t] = IF pc[t].at = "recorded" THEN [pc[t] EXCEPT !.at = "fanout"] ELSE AtRest]
    /\ last' = Step("unlock", Main, pc[t].key, None, FALSE)
    /\ UNCHANGED <<call, max_size, ttl, peer_ports, cache, expiration_times, expected_versions,
                   message_queue, conns, senders, up, now, writes>>

\* Mutant: the message carries the version recorded when it is built.
OutboundCurrent(i, f) == Message(f.key, f.value, expected_versions[i][f.key], i)

\* The message _send_update_async builds from the arguments of line 114.
Outbound(i, f) == Message(f.key, f.value, f.version, i)

\* set, line 114, outside the lock.
FanOut(t) ==
    /\ pc[t].at = "fanout"
    /\ senders' = senders \cup NewSenders(Outbound(Main, pc[t]), peer_ports[Main])
    /\ pc' = [pc EXCEPT ![t] = AtRest]
    /\ last' = Step("fanout", Main, pc[t].key, None, TRUE)
    /\ UNCHANGED <<call, lock, max_size, ttl, peer_ports, cache, expiration_times, expected_versions,
                   message_queue, conns, up, now, writes>>

\* The consumer, line 202: take the next message from the queue.
Dequeue ==
    /\ pc["consumer"] = AtRest
    /\ message_queue[Main] # <<>>
    /\ message_queue' = [message_queue EXCEPT ![Main] = Tail(@)]
    /\ LET m == Head(message_queue[Main])
       IN  /\ pc' = [pc EXCEPT !["consumer"] = Frame("got", m.key, m.value, m.version)]
           /\ last' = Step("dequeue", Main, m.key, None, FALSE)
    /\ UNCHANGED <<call, lock, max_size, ttl, peer_ports, cache, expiration_times, expected_versions,
                   conns, senders, up, now, writes>>

\* The consumer, line 203.
ConsumerLock ==
    /\ pc["consumer"].at = "got"
    /\ Acquire("consumer", [pc["consumer"] EXCEPT !.at = "test"])
    /\ last' = Step("lock", Main, pc["consumer"].key, None, FALSE)
    /\ UNCHANGED <<call, max_size, ttl, peer_ports, cache, expiration_times, expected_versions,
                   message_queue, conns, senders, up, now, writes>>

\* The consumer, lines 204-205: the test, and the write of the Store when it
\* yields true; when it raises or yields false the block is left.
ConsumerTest ==
    LET m  == pc["consumer"]
        ok == Applies(expected_versions[Main], m)
    IN  /\ m.at = "test"
        /\ cache' = [cache EXCEPT ![Main] = IF ok THEN ApplyCache(@, m) ELSE @]
        /\ writes' = [writes EXCEPT ![Main] = IF ok THEN LogWrite(@, m.key, m.value, now) ELSE @]
        /\ pc' = [pc EXCEPT !["consumer"].at = IF ok THEN "applied" ELSE "done"]
        /\ last' = Step("test", Main, m.key, IF Raises(expected_versions[Main], m) THEN "TypeError" ELSE None, ok)
        /\ UNCHANGED <<call, lock, max_size, ttl, peer_ports, expiration_times, expected_versions,
                       message_queue, conns, senders, up, now>>

\* The consumer, lines 206-208.
ConsumerRecord ==
    LET m == pc["consumer"]
    IN  /\ m.at = "applied"
        /\ expiration_times' = [expiration_times EXCEPT ![Main] = Stamp(@, m.key, ttl[Main], now)]
        /\ expected_versions' = [expected_versions EXCEPT ![Main] = Put(@, m.key, m.version)]
        /\ pc' = [pc EXCEPT !["consumer"].at = "done"]
        /\ last' = Step("record", Main, m.key, None, TRUE)
        /\ UNCHANGED <<call, lock, max_size, ttl, peer_ports, cache, message_queue,
                       conns, senders, up, now, writes>>

Callers == Threads \ {"consumer"}

\* us-east with us-west as its only peer; clients send it messages about key a.
InitThreads == \E n \in Caps : Constructed([i \in Regions |-> n], [i \in Regions |-> 0], [i \in Regions |-> IF i = East THEN {West} ELSE {}])

NextThreads ==
    \/ \E t \in Callers : GetLock(t, "a")
    \/ \E t \in Callers : GetLocked(t)
    \/ \E t \in Callers, v \in Values : SetLock(t, "a", v)
    \/ \E t \in Callers : SetStore(t)
    \/ \E t \in Callers : SetRecord(t)
    \/ \E t \in Threads : Unlock(t)
    \/ \E t \in Callers : FanOut(t)
    \/ \E m \in Messages : m.key = "a" /\ m.region = West /\ ClientConnect(Main, m)
    \/ HandleClient(Main)
    \/ Dequeue
    \/ ConsumerLock
    \/ ConsumerTest
    \/ ConsumerRecord

SpecThreads == InitThreads /\ [][NextThreads]_vars

\* --- one instance that never sets key a and is sent up to MaxBatch messages
\* about it, in any order and with repetitions
AboutA == {m \in Messages : m.key = "a" /\ m.region = West}

NextOrder ==
    \/ \E m \in AboutA : Len(call.args) < MaxBatch /\ Delivery(Main, m, MaxOpen)
    \/ HandleClient(Main)
    \/ Consume(Main)
    \/ Get(Main, "a")
    \/ \E v \in Values : Set(Main, "b", v)

SpecOrder == InitSets /\ [][NextOrder]_vars

\* --- lines_overlap (src/questionA.py), called with any two pairs of endpoints
lines_overlap(line1, line2) ==
    LET x1 == line1[1]
        x2 == line1[2]
        x3 == line2[1]
        x4 == line2[2]
    IN  (x1 <= x3 /\ x3 <= x2) \/ (x3 <= x1 /\ x1 <= x4)

Coords == 0..MaxCoord

Lines == Coords \X Coords

CallLinesOverlap(line1, line2) ==
    /\ call' = [fn |-> "lines_overlap", args |-> <<line1, line2>>, result |-> lines_overlap(line1, line2)]
    /\ last' = Idle("call")
    /\ UNCHANGED <<max_size, ttl, peer_ports, cache, expiration_times, expected_versions,
                   message_queue, conns, senders, up, now, writes, lock, pc>>

NextOverlap ==
    \/ \E line1 \in Lines, line2 \in Lines : CallLinesOverlap(line1, line2)

SpecOverlap == InitSets /\ [][NextOverlap]_vars

\* ------------------------------------------------------------------ history readers
Written(i) == {writes[i][n].key : n \in DOMAIN writes[i]}

LastWrite(i, k) == CHOOSE e \in {writes[i][n] : n \in DOMAIN writes[i]} : e.key = k

\* Among the entries present, the key whose most recent write is the oldest.
OldestWritten(i) ==
    LET present == SelectSeq(writes[i], LAMBDA e : e.key \in CacheKeys(cache[i]))
    IN  Head(present).key

\* The version recorded for k, -1 when none is.
Recorded(i, k) == IF k \in DOMAIN expected_versions[i] THEN expected_versions[i][k] ELSE -1

IsWrite(s) == s.op = "set" \/ (s.op = "consume" /\ s.applied)

\* ------------------------------------------------------------------ claims
\* C1: in every reachable state of one instance, under any interleaving of get,
\* set and consumer applies of remote messages, the Store holds at most max_size
\* entries.  (Violated: the consumer inserts a new key into a full Store.)
C1_SizeWithinCapacity == \A i \in Regions : Len(cache[i]) <= max_size[i]

\* C2: get never refreshes eviction order: get(k) leaves the order of the
\* Store's entries as it was.  (Violated: get pops and re-inserts the key.)
C2_GetKeepsEvictionOrder ==
    [][\A k \in Keys : Get(Main, k) => KeyOrder(cache'[Main]) = KeyOrder(cache[Main])]_vars

C4_GetReturnsLastSet ==
    (last.op = "get" /\ Cardinality(Written(Main)) <= max_size[Main]) =>
        last.value = IF last.key \in Written(Main) THEN LastWrite(Main, last.key).value ELSE None

\* A get has returned the value of a key that was set twice while another key is
\* in the Store too.
C4_Witness ==
    /\ last.op = "get"
    /\ last.value \in Values
    /\ expected_versions[Main][last.key] = 2
    /\ Cardinality(Written(Main)) = 2
    /\ max_size[Main] = 2

\* C5: with a ttl configured, get(k) right after a write of k (a local set or an
\* accepted remote update) at the same instant returns the written value, and
\* get(k) issued when more than ttl has elapsed since the last write of k
\* returns None, whatever gets happened in between.
C5_TTL ==
    [][\A k \in Keys :
          (Get(Main, k) /\ ttl[Main] # 0 /\ k \in Written(Main)) =>
              /\ (IsWrite(last) /\ last.key = k /\ LastWrite(Main, k).time = now)
                     => last'.value = LastWrite(Main, k).value
              /\ (now - LastWrite(Main, k).time > ttl[Main])
                     => last'.value = None]_vars

\* A get of a written key, issued when more than ttl had elapsed since its last
\* write, has just returned None.
C5_Witness ==
    /\ ttl[Main] # 0
    /\ last.op = "get"
    /\ last.value = None
    /\ last.key \in Written(Main)
    /\ now - LastWrite(Main, last.key).time > ttl[Main]

C7_NewerIsApplied ==
    [][(/\ Consume(Main)
        /\ \/ Head(message_queue[Main]).key \notin DOMAIN expected_versions[Main]
           \/ Head(message_queue[Main]).version > expected_versions[Main][Head(message_queue[Main]).key])
          => /\ Lookup(cache'[Main], Head(message_queue[Main]).key) = Head(message_queue[Main]).value
             /\ expected_versions'[Main][Head(message_queue[Main]).key] = Head(message_queue[Main]).version]_vars

\* The consumer has just applied a message of version 0 for a key never seen.
C7_Witness == last.op = "consume" /\ last.applied /\ expected_versions[Main][last.key] = 0

\* C8 as stated: with us-west reachable and key a never written on us-west,
\* after set(a, v) on us-east, us-west eventually reaches a state in which
\* get(a) returns v.  (Violated: a later set of a on us-east may overtake it.)
C8_SetBecomesVisible ==
    \A v \in Values : (Lookup(cache[East], "a") = v) ~> (Lookup(cache[West], "a") = v)

\* C8 as amended: after set(a, v) on us-east has stamped version n, us-west
\* eventually reaches a state in which get(a) returns v, unless us-east sets a
\* again before.
C8_VisibleUnlessOverwritten ==
    \A v \in Values, n \in 1..MaxVersion :
        (Lookup(cache[East], "a") = v /\ Recorded(East, "a") = n)
            ~> (Lookup(cache[West], "a") = v \/ Recorded(East, "a") > n)

\* The consumer of us-west has just applied the first set of a on us-east, and
\* get(a) returns the same value in both regions.
C8_Witness ==
    /\ last.op = "consume" /\ last.region = West /\ last.key = "a" /\ last.applied
    /\ Recorded(East, "a") = 1
    /\ Recorded(West, "a") = 1
    /\ Lookup(cache[West], "a") \in Values
    /\ Lookup(cache[West], "a") = Lookup(cache[East], "a")

\* C9: once the sets stop and every message sent has been delivered and
\* consumed, the two regions hold the same value and the same recorded version for
\* every key.  (Violated: two regions stamp the same version on the same key.)
C9_Converged ==
    Quiescent =>
        \A k \in Keys : \A i, j \in {East, West} :
            /\ Lookup(cache[i], k) = Lookup(cache[j], k)
            /\ Recorded(i, k) = Recorded(j, k)

C11_VersionsNeverDecrease ==
    [][\A k \in DOMAIN expected_versions[Main] :
          /\ k \in DOMAIN expected_versions'[Main]
          /\ expected_versions'[Main][k] >= expected_versions[Main][k]
          /\ (\E v \in Values : Set(Main, k, v))
                 => expected_versions'[Main][k] = expected_versions[Main][k] + 1
          /\ (/\ Consume(Main)
              /\ Head(message_queue[Main]).key = k
              /\ Head(message_queue[Main]).version <= expected_versions[Main][k])
                 => UNCHANGED <<cache, expected_versions>>]_vars

\* The consumer has just discarded a message for a key whose entry is gone from
\* the Store (evicted or expired) while its version is still recorded.
C11_Witness ==
    /\ last.op = "consume" /\ ~last.applied
    /\ last.key \notin CacheKeys(cache[Main])
    /\ last.key \in DOMAIN expected_versions[Main]

\* C12: handling a connection whose payload is malformed (empty, no JSON, a
\* field missing) closes that connection, enqueues nothing and leaves the Store,
\* the expiry times and the versions as they were; whatever else is open, the
\* listener accepts any further connection, every open connection can be
\* handled, and a well-formed payload is enqueued as its Message.
C12_MalformedIsDropped ==
    /\ [][\A p \in conns[Main] :
             (HandleClient(Main) /\ p \notin conns'[Main]) =>
                 /\ conns'[Main] = conns[Main] \ {p}
                 /\ UNCHANGED <<cache, expiration_times, expected_versions>>
                 /\ message_queue'[Main] =
                        IF p \in Malformed THEN message_queue[Main]
                        ELSE Append(message_queue[Main], Message(p.key, p.value, p.version, p.region))]_vars
    /\ [](\A p \in Payloads :
             (InFlight(Main) < MaxOpen /\ p \notin conns[Main]) => ENABLED Accept(Main, p, MaxOpen))
    /\ [](\A p \in conns[Main] : ENABLED (HandleClient(Main) /\ p \notin conns'[Main]))

\* A malformed payload has just been dropped while the connection of a
\* well-formed one is open and the Store holds a value written earlier.
C12_Witness ==
    /\ last.op = "handle" /\ ~last.applied
    /\ \E p \in conns[Main] : p \in WellFormed
    /\ Lookup(cache[Main], "a") \in Values
    /\ writes[Main] # <<>>

\* The segment between the two endpoints of a line, whatever their order, holds x.
OnLine(line, x) ==
    \/ line[1] <= x /\ x <= line[2]
    \/ line[2] <= x /\ x <= line[1]

\* Segments with integer endpoints that share a point share an endpoint.
SharePoint(line1, line2) == \E x \in Coords : OnLine(line1, x) /\ OnLine(line2, x)

\* C13: for any two segments with endpoints in 0..MaxCoord, each given by its
\* two endpoints in either order, lines_overlap returns true exactly when the
\* segments share a point, and returns the same with the arguments swapped.
\* (Violated: a first segment given as (high, low) overlaps nothing.)
C13_OverlapIffSharePoint ==
    call.fn = "lines_overlap" =>
        /\ call.result = SharePoint(call.args[1], call.args[2])
        /\ call.result = lines_overlap(call.args[2], call.args[1])

\* The messages the sets of key a on us-east can stamp.
FromEast == {m \in Messages : m.region = East /\ m.key = "a" /\ m.version >= 1}

\* C14: a sender thread has failed fewer than 9 times while it runs, so it makes
\* at most 9 attempts; a successful attempt ends it, and so does the 9th failed
\* one, which delivers nothing; there is never more than one thread for a
\* message and a peer, and a thread only starts in a set, for the version that
\* set stamps, so no message reaches a peer twice; every sender thread (all
\* carry a message us-east stamped on key a, to us-west) eventually ends.
C14_SenderTerminates ==
    /\ [](\A s \in senders : s.attempt < retries)
    /\ [](\A s1, s2 \in senders : (s1.message = s2.message /\ s1.port = s2.port) => s1 = s2)
    /\ [][\A s \in senders :
             /\ SendDelivered(s) => ~Sending(s.message, s.port)'
             /\ (SendFailed(s) /\ s.attempt = retries - 1) => (~Sending(s.message, s.port)' /\ conns' = conns)
             /\ (SendFailed(s) /\ s.attempt < retries - 1) => [s EXCEPT !.attempt = @ + 1] \in senders']_vars
    /\ [][\A s \in senders' \ senders :
             \/ s.attempt > 0 /\ [s EXCEPT !.attempt = @ - 1] \in senders \ senders'
             \/ /\ s.attempt = 0
                /\ s.message.version = expected_versions'[East][s.message.key]
                /\ s.message.version > Recorded(East, s.message.key)]_vars
    /\ [](\A s \in senders : s.message \in FromEast /\ s.port = West)
    /\ \A m \in FromEast : Sending(m, West) ~> ~Sending(m, West)

\* The only sender thread there was has just failed its last attempt: the
\* update is dropped, us-west never got it.
C14_Witness ==
    /\ last.op = "send" /\ ~last.applied
    /\ senders = {}
    /\ Recorded(East, "a") = 1
    /\ Recorded(West, "a") = -1
    /\ conns[West] = {} /\ message_queue[West] = <<>>

\* C15: the consumer takes the next message whenever the queue holds one,
\* whatever the messages before it did; a message whose processing raises
\* leaves the Store, the expiry times and the versions as they were, and after
\* it get can still take the lock; a message that does not raise is applied or
\* discarded by the version rule as ever.
C15_ConsumerSurvives ==
    /\ [](message_queue[Main] # <<>> => ENABLED Consume(Main))
    /\ [](ENABLED Get(Main, "a"))
    /\ [][Consume(Main) =>
             LET m  == Head(message_queue[Main])
                 ev == expected_versions[Main]
             IN  /\ message_queue'[Main] = Tail(message_queue[Main])
                 /\ Raises(ev, m) => UNCHANGED <<cache, expiration_times, expected_versions>>
                 /\ (~Raises(ev, m) /\ (m.key \notin DOMAIN ev \/ m.version > ev[m.key]))
                        => /\ Lookup(cache'[Main], m.key) = m.value
                           /\ expected_versions'[Main][m.key] = m.version
                 /\ (~Raises(ev, m) /\ m.key \in DOMAIN ev /\ m.version <= ev[m.key])
                        => UNCHANGED <<cache, expiration_times, expected_versions>>]_vars

\* Processing a message has just raised while the next message waits in the queue.
C15_Witness ==
    /\ last.op = "consume" /\ last.value = "TypeError"
    /\ message_queue[Main] # <<>>
    /\ Lookup(cache[Main], "a") \in Values

\* C16: at any instant at most one thread is inside its locked block, and it
\* is the one holding the lock; every step that reads or writes the Store, the
\* expiry times or the versions is taken by the thread holding the lock; and
\* while a thread has written the Store but not yet the version, no other
\* thread is inside a locked block, so none can see that state.
C16_MutualExclusion ==
    /\ [](\A t, u \in Threads : (pc[t].at \in Locked /\ pc[u].at \in Locked) => t = u)
    /\ [](\A t \in Threads : pc[t].at \in Locked <=> lock = t)
    /\ [](\A t, u \in Threads : (pc[t].at \in Torn /\ pc[u].at \in Locked) => t = u)
    /\ [][\A t \in Threads :
             (pc'[t] # pc[t] /\ (pc[t].at \in Locked \/ pc'[t].at \in Locked))
                 => (lock = t \/ lock' = t)]_vars
    /\ [][(cache' # cache \/ expiration_times' # expiration_times \/ expected_versions' # expected_versions)
             => \E t \in Threads : lock = t /\ lock' = t /\ pc'[t] # pc[t]]_vars

\* A caller in set has written the Store and not yet the version, while the
\* consumer holds a message for the same key and waits for the lock.
C16_Witness ==
    /\ pc["caller1"].at = "stored"
    /\ pc["consumer"].at = "got"
    /\ pc["consumer"].key = pc["caller1"].key
    /\ lock = "caller1"

\* C18: every write of a key that is in the Store, by a local set or by a
\* remote update the consumer accepts, leaves that key as the newest entry, the
\* last to be evicted.  (Violated: the consumer writes the value in place.)
C18_OverwriteMovesLast ==
    [][\A k \in CacheKeys(cache[Main]) :
          (\/ \E v \in Values : Set(Main, k, v)
           \/ /\ Consume(Main)
              /\ Head(message_queue[Main]).key = k
              /\ Applies(expected_versions[Main], Head(message_queue[Main])))
             => KeyOrder(cache'[Main])[Len(cache'[Main])] = k]_vars

\* C19: the step of set that records the version is taken under the lock the
\* thread has held since it wrote the Store, the Store still maps the key to
\* the thread's value, and the version goes up by exactly one (to 1 when none
\* was recorded); the thread carries that key, value and version unchanged
\* through the unlock to the fan-out, whatever the other threads do meanwhile;
\* and the fan-out starts exactly one sender per peer, each with the message
\* of that key, value and version.
C19_SetStampsAndFansOut ==
    /\ [][\A t \in Callers :
             SetRecord(t) =>
                 LET k == pc[t].key
                 IN  /\ lock = t /\ lock' = t
                     /\ Lookup(cache[Main], k) = pc[t].value
                     /\ expected_versions'[Main][k] = (IF k \in DOMAIN expected_versions[Main] THEN expected_versions[Main][k] ELSE 0) + 1
                     /\ pc'[t].version = expected_versions'[Main][k]
                     /\ pc'[t].value = Lookup(cache'[Main], k)
                     /\ pc'[t].key = k]_vars
    /\ [][\A t \in Callers :
             (pc[t].at \in {"recorded", "fanout"} /\ pc'[t] # pc[t]) =>
                 /\ Unlock(t) \/ FanOut(t)
                 /\ Unlock(t) => pc'[t] = [pc[t] EXCEPT !.at = "fanout"]]_vars
    /\ [][\A t \in Callers :
             FanOut(t) =>
                 LET sent == {[port |-> p, message |-> Message(pc[t].key, pc[t].value, pc[t].version, Main), attempt |-> 0] : p \in peer_ports[Main]}
                 IN  /\ senders' \ senders = sent
                     /\ Cardinality(sent) = Cardinality(peer_ports[Main])]_vars
    /\ [][senders' # senders => \E t \in Callers : FanOut(t)]_vars

\* A set that stamped version 1 has just fanned out its message after another
\* write of the same key raised the recorded version to 2.
C19_Witness ==
    /\ last.op = "fanout" /\ last.key = "a"
    /\ Recorded(Main, "a") = 2
    /\ \E s \in senders : s.message.version = 1
    /\ \A s \in senders : s.message.version # 2

\* The messages delivered so far.
Delivered == {call.args[n] : n \in DOMAIN call.args}

\* Two of them with the same version are the same message.
DistinctVersions == \A m1, m2 \in Delivered : m1.version = m2.version => m1 = m2

Newest == CHOOSE m \in Delivered : \A m2 \in Delivered : m2.version <= m.version

\* C17: when an instance that never sets key a has consumed all the messages
\* delivered to it about a, any number of them in any order, repetitions
\* included, different messages having different versions, the version recorded
\* for a is the largest version delivered, and where nothing can be evicted
\* (two keys, max_size 2) the Store maps a to the value of that message.
C17_OrderIndependent ==
    (/\ call.fn = "deliveries"
     /\ DistinctVersions
     /\ conns[Main] = {} /\ message_queue[Main] = <<>>)
        => /\ Recorded(Main, "a") = Newest.version
           /\ max_size[Main] = 2 => Lookup(cache[Main], "a") = Newest.value

\* Three different messages were delivered, the one of the largest version
\* first, and the consumer has just discarded the last of them.
C17_Witness ==
    /\ call.fn = "deliveries"
    /\ Len(call.args) = MaxBatch
    /\ Cardinality(Delivered) = MaxBatch
    /\ DistinctVersions
    /\ call.args[1] = Newest
    /\ conns[Main] = {} /\ message_queue[Main] = <<>>
    /\ last.op = "consume" /\ ~last.applied

\* What has reached region i: the payloads on its connections and its queue.
Inbound(i) == conns[i] \cup {message_queue[i][n] : n \in DOMAIN message_queue[i]}

\* C20: a step of a consumer, accepting or discarding, starts no sender and
\* opens no connection; sender threads start only in a local set, with the
\* message of that set, for the peers of the region that sets; so whatever
\* reaches a region was written by a region that lists it as a peer, never by
\* itself, and asia, a peer of us-west only, never gets the key written on
\* us-east.
C20_ApplyingSendsNothing ==
    /\ [][\A i \in Regions : Consume(i) => (senders' = senders /\ conns' = conns)]_vars
    /\ [][\A s \in senders' \ senders :
             /\ \E v \in Values : Set(s.message.region, s.message.key, v)
             /\ s.port \in peer_ports[s.message.region]
             /\ s.message.version = expected_versions'[s.message.region][s.message.key]]_vars
    /\ [](\A i \in Regions : \A m \in Inbound(i) : i \in peer_ports[m.region] /\ m.region # i)
    /\ [](Lookup(cache[Asia], "a") = None /\ Recorded(Asia, "a") = -1)

\* us-west has applied the write of us-east, asia has applied the write of
\* us-west, nothing is in flight any more, and asia has nothing of us-east.
C20_Witness ==
    /\ Quiescent
    /\ last.op = "consume"
    /\ Lookup(cache[West], "a") \in Values
    /\ Lookup(cache[Asia], "b") \in Values
    /\ Lookup(cache[Asia], "a") = None

====
